---- MODULE Spec2Model ----
(***************************************************************************)
(* Model of the Test Case Manager (src/streamlit_app.py).                  *)
(*                                                                         *)
(* The program is a Streamlit script: every user interaction delivers one  *)
(* widget event and makes the runtime execute main() once, top to bottom,  *)
(* against the persistent st.session_state.  One action of this model is   *)
(* one execution of main().  st.rerun() ends the current execution and     *)
(* queues another one: it sets the flag `rerun`, and while the flag is set *)
(* the only enabled action is Rerun, the queued execution without any      *)
(* widget event.  The values of a submitted form reach the execution as   *)
(* the widgets' values; `submitted` holds them for the execution that has  *)
(* just run.                                                               *)
(*                                                                         *)
(* Positions are 0-based as in the source: filtered_indices holds absolute *)
(* row numbers 0..len(df)-1 and current_position is an offset into it.     *)
(* An optional value is a sequence: None is <<>> and a present value x is  *)
(* <<x>>.  A calendar date is a triple <<year, month, day>>.               *)
(* The timestamp of a change entry and the insertion order of the         *)
(* changes_log dict are not modelled.                                      *)
(***************************************************************************)
EXTENDS Integers, Sequences, FiniteSets, TLC

VARIABLES
    session_state,   \* st.session_state: df, filtered_indices, ...
    uploaded_file,   \* what st.file_uploader returns: None or the file's rows
    rerun,           \* TRUE when st.rerun() has queued another execution
    submitted,       \* the form values the current execution was submitted
                     \* with (the widget values of a submitted st.form), or None
    edits            \* number of form fields the user has altered so far

vars == <<session_state, uploaded_file, rerun, submitted, edits>>

None == <<>>
Some(x) == <<x>>

----------------------------------------------------------------------------
(* Bounds of the model.                                                    *)

\* Number of form fields the user alters in one behaviour, over all the
\* drafts submitted (a form submitted as it was opened alters none).
MaxEdits == 2

----------------------------------------------------------------------------
(* Columns (load_csv, expected_columns).                                   *)

expected_columns ==
    << "ID", "Category", "Test Case", "Test Description", "Test Input",
       "Expected Outcome", "Test Env", "Observed Outcome", "Test Status",
       "Date of Last Test", "Notes" >>

Columns == { expected_columns[i] : i \in 1..Len(expected_columns) }

\* The columns the form offers for editing (every column but ID).
FormFields == Columns \ {"ID"}

\* Python's len(range) helpers: the 0-based offsets of a sequence.
Offsets(seq) == 0..(Len(seq) - 1)

Max(a, b) == IF a >= b THEN a ELSE b
Min(a, b) == IF a <= b THEN a ELSE b

----------------------------------------------------------------------------
(* Values: every cell is text (str(...) of a cell is the cell itself).     *)

\* Python's str.strip() of a cell is empty: `cat and str(cat).strip()` fails.
IsBlank(v) == v \in {"", " "}

\* pandas.to_datetime(text).date() on the texts that occur in the model;
\* any other text raises and the except branch yields None (l.499-502).
ToDate(text) ==
    CASE text = "2024-01-02" -> Some(<<2024, 1, 2>>)
      [] text = "01/02/2024" -> Some(<<2024, 1, 2>>)
      [] text = "2024-03-04" -> Some(<<2024, 3, 4>>)
      [] OTHER -> None

Digit(n) ==
    CASE n = 0 -> "0" [] n = 1 -> "1" [] n = 2 -> "2" [] n = 3 -> "3"
      [] n = 4 -> "4" [] n = 5 -> "5" [] n = 6 -> "6" [] n = 7 -> "7"
      [] n = 8 -> "8" [] n = 9 -> "9"

Pad2(n) == Digit((n \div 10) % 10) \o Digit(n % 10)

\* str(new_date): datetime.date renders as ISO text, None renders as "None".
StrDate(d) ==
    IF d = None THEN "None"
    ELSE Pad2(d[1][1] \div 100) \o Pad2(d[1][1] % 100) \o "-" \o Pad2(d[1][2])
         \o "-" \o Pad2(d[1][3])

----------------------------------------------------------------------------
(* Input files.  A raw row maps the columns present in the file to text.   *)

RawRow(id, cat, name, status, day) ==
    [c \in {"ID", "Category", "Test Case", "Test Status", "Date of Last Test"} |->
        CASE c = "ID" -> id
          [] c = "Category" -> cat
          [] c = "Test Case" -> name
          [] c = "Test Status" -> status
          [] c = "Date of Last Test" -> day]

\* Two records, Status Pending / Passed.
FileAB ==
    << RawRow("TC001", "Login", "Valid Login", "Pending", ""),
       RawRow("TC002", "Navigation", "Menu Navigation", "Passed", "2024-01-02") >>

\* Two records that share an ID and a category: a non-ISO date and a status
\* outside the canonical set, an unparseable date.
FileDup ==
    << RawRow("TC001", "Login", "a", "In Review", "01/02/2024"),
       RawRow("TC001", "Login", "b", "Passed", "tbd") >>

Files == {FileAB, FileDup}

\* load_csv: the expected columns in order, a missing column filled with ''.
load_csv(rows) ==
    [i \in 1..Len(rows) |->
        [c \in Columns |-> IF c \in DOMAIN rows[i] THEN rows[i][c] ELSE ""]]

----------------------------------------------------------------------------
(* Session state.                                                          *)

EmptyLog == [k \in {} |-> None]

\* initialize_session_state
initialize_session_state ==
    [ df                |-> None,
      filtered_indices  |-> <<>>,
      current_position  |-> 0,
      changes_log       |-> EmptyLog,
      original_df       |-> None,
      last_save_message |-> None,
      selected_category |-> "All",
      selected_status   |-> "All" ]

\* RowMatches without the status test.
RowMatchesCategoryOnly(row, category, status) ==
    ~ (category # "All" /\ row["Category"] # category)

\* The two filter tests of the loop body of apply_filters.
RowMatches(row, category, status) ==
    /\ ~ (category # "All" /\ row["Category"] # category)
    /\ ~ (status # "All" /\ row["Test Status"] # status)

\* ClampPosition without the clamp.
ClampPositionMissing(position, n) == position

\* The position clamp at the end of apply_filters.
ClampPosition(position, n) ==
    IF position >= n THEN Max(0, n - 1) ELSE position

\* apply_filters (called only where df is not None).
apply_filters(s) ==
    LET df == s.df[1]
        Keep(idx) == RowMatches(df[idx + 1], s.selected_category, s.selected_status)
        filtered == SelectSeq([i \in 1..Len(df) |-> i - 1], Keep)
    IN  [s EXCEPT !.filtered_indices = filtered,
                  !.current_position = ClampPosition(s.current_position, Len(filtered))]

\* get_current_test_index taking the view offset for the absolute position.
get_current_test_index_offset(s) ==
    IF s.filtered_indices = <<>> \/ s.current_position >= Len(s.filtered_indices)
    THEN 0
    ELSE s.current_position

\* get_current_test_index
get_current_test_index(s) ==
    IF s.filtered_indices = <<>> \/ s.current_position >= Len(s.filtered_indices)
    THEN 0
    ELSE s.filtered_indices[s.current_position + 1]

\* LoadStep leaving changes_log as it is.
LoadStepKeepsLog(s, file) ==
    LET df == load_csv(file)
    IN  IF s.df = None \/ df # s.df[1]
        THEN apply_filters([s EXCEPT !.df = Some(df),
                                     !.original_df = Some(df),
                                     !.current_position = 0,
                                     !.last_save_message = None])
        ELSE s

\* The upload branch of main (l.251-260): the file is parsed on every
\* execution and replaces the store whenever it differs from it.
LoadStep(s, file) ==
    LET df == load_csv(file)
    IN  IF s.df = None \/ df # s.df[1]
        THEN apply_filters([s EXCEPT !.df = Some(df),
                                     !.original_df = Some(df),
                                     !.current_position = 0,
                                     !.changes_log = EmptyLog,
                                     !.last_save_message = None])
        ELSE s

----------------------------------------------------------------------------
(* Filter controls (l.269-293).                                            *)

\* The options of a filter selectbox: 'All' and the distinct non-blank
\* values of the column (the sort only orders the options on screen).
FilterOptions(df, column) ==
    {"All"} \cup { df[i][column] : i \in { j \in 1..Len(df) : ~ IsBlank(df[j][column]) } }

\* The value a filter selectbox returns: the option the user has just
\* picked, else the option at `index`, which is the stored selection when
\* it is still among the options and option 0 ('All') otherwise.
Selectbox(options, selected, picked) ==
    IF picked # None /\ picked[1] \in options THEN picked[1]
    ELSE IF selected \in options THEN selected
    ELSE "All"

new_category(s, ev) ==
    Selectbox(FilterOptions(s.df[1], "Category"), s.selected_category,
              IF ev.kind = "select_category" THEN Some(ev.arg) ELSE None)

new_status(s, ev) ==
    Selectbox(FilterOptions(s.df[1], "Test Status"), s.selected_status,
              IF ev.kind = "select_status" THEN Some(ev.arg) ELSE None)

\* "Check if filters changed" (l.287-288)
FiltersChanged(s, ev) ==
    \/ new_category(s, ev) # s.selected_category
    \/ new_status(s, ev) # s.selected_status

\* FilterChange putting the baseline copy back into the store.
FilterChangeRestoresBaseline(s, ev) ==
    apply_filters([s EXCEPT !.df = s.original_df,
                            !.selected_category = new_category(s, ev),
                            !.selected_status = new_status(s, ev),
                            !.current_position = 0])

\* The body of the filter-change branch (l.289-292).
FilterChange(s, ev) ==
    apply_filters([s EXCEPT !.selected_category = new_category(s, ev),
                            !.selected_status = new_status(s, ev),
                            !.current_position = 0])

----------------------------------------------------------------------------
(* Navigation controls (l.303-351) and "Save & Next" (l.416-422).          *)

\* "Previous" (l.319-321)
Previous(s) ==
    [s EXCEPT !.current_position = Max(0, s.current_position - 1),
              !.last_save_message = None]

\* NextCase without the min.
NextCaseUnclamped(s) ==
    [s EXCEPT !.current_position = s.current_position + 1,
              !.last_save_message = None]

\* "Next" (l.325-327)
NextCase(s) ==
    [s EXCEPT !.current_position =
                  Min(Len(s.filtered_indices) - 1, s.current_position + 1),
              !.last_save_message = None]

\* "Jump to Test Case" (l.348-350)
Jump(s, selected_jump) ==
    IF selected_jump # s.current_position
    THEN [s EXCEPT !.current_position = selected_jump, !.last_save_message = None]
    ELSE s

\* "Save & Next" (l.417-421): the button is outside the form.
SaveAndNext(s) ==
    IF s.current_position < Len(s.filtered_indices) - 1
    THEN [s EXCEPT !.current_position = s.current_position + 1,
                   !.last_save_message = None]
    ELSE s

----------------------------------------------------------------------------
(* The edit form (l.425-529).                                              *)

DateField == "Date of Last Test"

\* status_options (l.484-487): the canonical four plus the stored value.
status_options(current_test) ==
    {"Pending", "Passed", "Failed", "Blocked"} \cup {current_test["Test Status"]}

\* current_date (l.497-504): the stored text parsed for the date widget.
current_date(current_test) ==
    IF ~ IsBlank(current_test[DateField]) THEN ToDate(current_test[DateField])
    ELSE None

\* The values the form's widgets hold when nothing has been typed: each
\* text widget shows the stored text, the date widget holds a date or None.
FormValues(current_test) ==
    [f \in FormFields |->
        IF f = DateField THEN current_date(current_test) ELSE current_test[f]]

\* What the submit handler passes on for each widget: the text widgets as
\* they are, the date widget through str(new_date).
FormText(draft) ==
    [f \in FormFields |-> IF f = DateField THEN StrDate(draft[f]) ELSE draft[f]]

\* The texts the user types into field f of the form in this model.
TypedText(f, current_test, original_test) ==
    CASE f = "Category" -> {"Login", "Navigation", ""}
      [] f = "Test Status" -> status_options(current_test)
      [] OTHER -> {"x", original_test[f]}

\* The dates the user picks in the date widget in this model.
TypedDates == {None, Some(<<2024, 3, 4>>)}

\* The drafts reached from the drafts in D by altering one more field.
EditOneField(D, current_test, original_test) ==
    D \cup UNION { { [d EXCEPT ![f] = v] : v \in TypedText(f, current_test, original_test) } :
                     d \in D, f \in FormFields \ {DateField} }
      \cup { [d EXCEPT ![DateField] = day] : d \in D, day \in TypedDates }

RECURSIVE EditFields(_, _, _, _)
EditFields(D, current_test, original_test, k) ==
    IF k = 0 THEN D
    ELSE EditFields(EditOneField(D, current_test, original_test),
                    current_test, original_test, k - 1)

\* The drafts the user can submit for a record: the form's values with at
\* most k fields altered.
Drafts(current_test, original_test, k) ==
    EditFields({FormValues(current_test)}, current_test, original_test, k)

\* The number of fields in which a draft differs from the form as opened.
Altered(draft, current_test) ==
    Cardinality({ f \in FormFields : draft[f] # FormValues(current_test)[f] })

----------------------------------------------------------------------------
(* Change tracking and the submit handler (l.194-206, 531-582).            *)

\* change_key (l.197)
change_key(test_case_id, field) == test_case_id \o "_" \o field

\* The test of track_change (l.196).
Differs(old_value, new_value) == old_value # new_value

\* track_change keeping the entry a key already has.
track_change_keep_first(log, field, old_value, new_value, test_case_id) ==
    IF old_value # new_value
    THEN [ log |-> log @@ (test_case_id \o "_" \o field :>
                       [ test_case_id |-> test_case_id,
                         field        |-> field,
                         old_value    |-> old_value,
                         new_value    |-> new_value ]),
           changed |-> TRUE ]
    ELSE [ log |-> log, changed |-> FALSE ]

\* track_change: the log after the call and the call's return value.
track_change(log, field, old_value, new_value, test_case_id) ==
    IF Differs(old_value, new_value)
    THEN [ log |-> (change_key(test_case_id, field) :>
                       [ test_case_id |-> test_case_id,
                         field        |-> field,
                         old_value    |-> old_value,
                         new_value    |-> new_value ]) @@ log,
           changed |-> TRUE ]
    ELSE [ log |-> log, changed |-> FALSE ]

\* The ten track_change calls in source order, each with the name the
\* handler appends to changed_fields.
TrackedFields ==
    << <<"Category", "Category">>,
       <<"Test Case", "Test Case">>,
       <<"Test Description", "Description">>,
       <<"Test Input", "Test Input">>,
       <<"Expected Outcome", "Expected Outcome">>,
       <<"Test Env", "Environment">>,
       <<"Test Status", "Status">>,
       <<"Date of Last Test", "Date">>,
       <<"Observed Outcome", "Observed Outcome">>,
       <<"Notes", "Notes">> >>

\* The first k calls of l.536-565: the log and changed_fields after them.
RECURSIVE TrackChanges(_, _, _, _, _)
TrackChanges(log, current_test, text, test_id, k) ==
    IF k = 0 THEN [ log |-> log, changed_fields |-> <<>> ]
    ELSE LET before == TrackChanges(log, current_test, text, test_id, k - 1)
             field == TrackedFields[k][1]
             call == track_change(before.log, field, current_test[field],
                                  text[field], test_id)
         IN  [ log |-> call.log,
               changed_fields |->
                   IF call.changed
                   THEN Append(before.changed_fields, TrackedFields[k][2])
                   ELSE before.changed_fields ]

\* UpdatedRow with new_observed and new_status in each other's place.
UpdatedRowSwapped(test_id, text) ==
    [c \in Columns |->
        CASE c = "ID" -> test_id
          [] c = "Observed Outcome" -> text["Test Status"]
          [] c = "Test Status" -> text["Observed Outcome"]
          [] OTHER -> text[c]]

\* The row written back at l.568-571.
UpdatedRow(test_id, text) ==
    [c \in Columns |-> IF c = "ID" THEN test_id ELSE text[c]]

\* The submit handler (l.531-581).
SaveChanges(s, draft) ==
    LET current_test_idx == get_current_test_index(s)
        current_test == s.df[1][current_test_idx + 1]
        test_id == current_test["ID"]
        text == FormText(draft)
        tracked == TrackChanges(s.changes_log, current_test, text, test_id,
                                Len(TrackedFields))
    IN  apply_filters(
            [s EXCEPT !.changes_log = tracked.log,
                      !.df = Some([s.df[1] EXCEPT ![current_test_idx + 1] =
                                       UpdatedRow(test_id, text)]),
                      !.last_save_message =
                          Some([ changes_made   |-> Len(tracked.changed_fields),
                                 test_id        |-> test_id,
                                 changed_fields |-> tracked.changed_fields ])])

----------------------------------------------------------------------------
(* One execution of main() with widget event ev: the session state it      *)
(* leaves and whether it ended in st.rerun().                              *)

NoEvent == [kind |-> "none", arg |-> None]

main(s, file, ev) ==
    LET loaded == IF file # None THEN LoadStep(s, file[1]) ELSE s
    IN  IF loaded.df = None THEN [s |-> loaded, rerun |-> FALSE]
        ELSE IF FiltersChanged(loaded, ev)
             THEN [s |-> FilterChange(loaded, ev), rerun |-> TRUE]
        ELSE IF loaded.filtered_indices = <<>> THEN [s |-> loaded, rerun |-> FALSE]
        ELSE CASE ev.kind = "previous" -> [s |-> Previous(loaded), rerun |-> TRUE]
               [] ev.kind = "next" -> [s |-> NextCase(loaded), rerun |-> TRUE]
               [] ev.kind = "jump" ->
                     [s |-> Jump(loaded, ev.arg), rerun |-> ev.arg # loaded.current_position]
               [] ev.kind = "save_next" ->
                     [s |-> SaveAndNext(loaded),
                      rerun |-> loaded.current_position < Len(loaded.filtered_indices) - 1]
               [] ev.kind = "submit" -> [s |-> SaveChanges(loaded, ev.arg), rerun |-> TRUE]
               [] OTHER -> [s |-> loaded, rerun |-> FALSE]

\* DataFrame.to_csv(index=False): the header line, then one line per row in
\* row order, each with the cells of the frame's columns in column order
\* (load_csv leaves the columns in the order of expected_columns and the
\* submit handler assigns cells in place).  A line is the sequence of its
\* cells; every cell of the model is text free of separators and quotes
\* and is written as it is.
to_csv(frame) ==
    << expected_columns >> \o
    [i \in 1..Len(frame) |->
        [j \in 1..Len(expected_columns) |-> frame[i][expected_columns[j]]]]

\* export_data reading the baseline copy.
export_data_baseline(s) ==
    IF s.df # None THEN Some(to_csv(s.original_df[1])) ELSE None

\* export_data
export_data(s) ==
    IF s.df # None THEN Some(to_csv(s.df[1])) ELSE None

\* The data of the download button that one execution of main() renders
\* (l.371-388), None when the execution does not reach the export section:
\* a filter change and a navigation click end in st.rerun() before it, the
\* submit handler and "Save & Next" run after it.
csv_data(s, file, ev) ==
    LET loaded == IF file # None THEN LoadStep(s, file[1]) ELSE s
    IN  IF loaded.df = None THEN None
        ELSE IF FiltersChanged(loaded, ev) THEN None
        ELSE IF /\ loaded.filtered_indices # <<>>
                /\ \/ ev.kind \in {"previous", "next"}
                   \/ ev.kind = "jump" /\ ev.arg # loaded.current_position
             THEN None
        ELSE export_data(loaded)

\* The execution of main() that the runtime performs for event ev.
Execute(file, ev) ==
    LET run == main(session_state, file, ev)
    IN  /\ session_state' = run.s
        /\ uploaded_file' = file
        /\ rerun' = run.rerun
        /\ submitted' = IF ev.kind = "submit" THEN Some(ev.arg) ELSE None

\* The record on screen and its row in the baseline copy.
Shown == session_state.df[1][get_current_test_index(session_state) + 1]
ShownOriginal == session_state.original_df[1][get_current_test_index(session_state) + 1]

Init ==
    /\ session_state = initialize_session_state
    /\ uploaded_file = None
    /\ rerun = FALSE
    /\ submitted = None
    /\ edits = 0

\* The user puts a file into the uploader (or replaces the one in it).
Upload(file) ==
    /\ ~ rerun
    /\ uploaded_file # Some(file)
    /\ Execute(Some(file), NoEvent)
    /\ UNCHANGED edits

\* The user clears the uploader.
RemoveUpload ==
    /\ ~ rerun
    /\ uploaded_file # None
    /\ Execute(None, NoEvent)
    /\ UNCHANGED edits

\* The options the two filter selectboxes show.
CategoryOptions ==
    IF session_state.df # None THEN FilterOptions(session_state.df[1], "Category")
    ELSE {}
StatusOptions ==
    IF session_state.df # None THEN FilterOptions(session_state.df[1], "Test Status")
    ELSE {}

\* The user picks another option of "Filter by Category".
SelectCategory(category) ==
    /\ ~ rerun
    /\ category \in CategoryOptions
    /\ category # session_state.selected_category
    /\ Execute(uploaded_file, [kind |-> "select_category", arg |-> category])
    /\ UNCHANGED edits

\* The user picks another option of "Filter by Status".
SelectStatus(status) ==
    /\ ~ rerun
    /\ status \in StatusOptions
    /\ status # session_state.selected_status
    /\ Execute(uploaded_file, [kind |-> "select_status", arg |-> status])
    /\ UNCHANGED edits

\* The navigation block and the form are rendered (l.303, l.391).
HasView == session_state.df # None /\ session_state.filtered_indices # <<>>

\* "Previous" is clicked; the button is disabled at position 0.
ClickPrevious ==
    /\ ~ rerun
    /\ HasView
    /\ session_state.current_position # 0
    /\ Execute(uploaded_file, [kind |-> "previous", arg |-> None])
    /\ UNCHANGED edits

\* "Next" is clicked; the button is disabled at the last position.
ClickNext ==
    /\ ~ rerun
    /\ HasView
    /\ ~ (session_state.current_position >= Len(session_state.filtered_indices) - 1)
    /\ Execute(uploaded_file, [kind |-> "next", arg |-> None])
    /\ UNCHANGED edits

\* Another entry of "Jump to Test Case" is picked (shown when total > 1).
SelectJump(selected_jump) ==
    /\ ~ rerun
    /\ HasView
    /\ Len(session_state.filtered_indices) > 1
    /\ selected_jump \in Offsets(session_state.filtered_indices)
    /\ selected_jump # session_state.current_position
    /\ Execute(uploaded_file, [kind |-> "jump", arg |-> selected_jump])
    /\ UNCHANGED edits

\* The drafts the form on screen can be submitted with.
FormDrafts ==
    IF HasView THEN Drafts(Shown, ShownOriginal, MaxEdits - edits) ELSE {}

\* "Save & Next" is clicked; the button is shown before the last position.
\* The button is outside the form, so the execution it triggers receives
\* none of the values the user has typed into the form.
ClickSaveAndNext ==
    /\ ~ rerun
    /\ HasView
    /\ session_state.current_position < Len(session_state.filtered_indices) - 1
    /\ Execute(uploaded_file, [kind |-> "save_next", arg |-> None])
    /\ UNCHANGED edits

\* "Save Changes" is clicked with the form holding draft.
Submit(draft) ==
    /\ ~ rerun
    /\ HasView
    /\ edits + Altered(draft, Shown) <= MaxEdits
    /\ Execute(uploaded_file, [kind |-> "submit", arg |-> draft])
    /\ edits' = edits + Altered(draft, Shown)

\* The execution queued by st.rerun().
Rerun ==
    /\ rerun
    /\ Execute(uploaded_file, NoEvent)
    /\ UNCHANGED edits

Next ==
    \/ \E file \in Files : Upload(file)
    \/ RemoveUpload
    \/ \E category \in CategoryOptions : SelectCategory(category)
    \/ \E status \in StatusOptions : SelectStatus(status)
    \/ ClickPrevious
    \/ ClickNext
    \/ \E selected_jump \in Offsets(session_state.filtered_indices) : SelectJump(selected_jump)
    \/ ClickSaveAndNext
    \/ \E draft \in FormDrafts : Submit(draft)
    \/ Rerun

Spec == Init /\ [][Next]_vars

----------------------------------------------------------------------------
(* Vocabulary of the properties.                                           *)

df == session_state.df[1]
view == session_state.filtered_indices
cursor == session_state.current_position
log == session_state.changes_log
NewDf == session_state'.df[1]
NewView == session_state'.filtered_indices
NewCursor == session_state'.current_position
NewLog == session_state'.changes_log

\* The absolute position the cursor selects (the view is not empty).
Selected == view[cursor + 1]
NewSelected == NewView[NewCursor + 1]

InView(position, v) == \E i \in 1..Len(v) : v[i] = position

\* One execution of main() in which the user changes a filter.
IsFilterChange ==
    \/ \E category \in CategoryOptions : SelectCategory(category)
    \/ \E status \in StatusOptions : SelectStatus(status)

\* One execution of main() in which the form is submitted.
IsSubmit == submitted' # None

\* The field behind a name of changed_fields.
FieldOfLabel(label) ==
    TrackedFields[CHOOSE k \in 1..Len(TrackedFields) : TrackedFields[k][2] = label][1]

\* The fields of the record at absolute position `position` whose text in
\* the draft differs from the store's text.
DiffFields(draft, position) ==
    { f \in FormFields : FormText(draft)[f] # df[position + 1][f] }

\* The message of the last submission, when there is one.
Message == session_state.last_save_message[1]
NewMessage == session_state'.last_save_message[1]

\* total_changes (l.357) / changes_count (l.377)
total_changes(s) == Cardinality(DOMAIN s.changes_log)

----------------------------------------------------------------------------
(* C1 *)

\* C1: after a filter change, and after the re-filtering that ends a commit,
\* the cursor selects the absolute position it selected before, whenever
\* that position is a member of the new Filtered View.
C1_ReconcileKeepsSelection ==
    [][ (HasView /\ (IsFilterChange \/ IsSubmit) /\ InView(Selected, NewView))
            => NewSelected = Selected ]_vars

----------------------------------------------------------------------------
(* C2 *)

\* C2: while the uploader keeps the input it had, an execution of main()
\* that is not a commit keeps every Change Entry and keeps, in the store,
\* the value each entry records as committed; a commit keeps the entries of
\* the other fields.  Only a load of a new record set may destroy them.
C2_CommittedEditsSurvive ==
    [][ (session_state.df # None /\ uploaded_file' = uploaded_file)
            => \A k \in DOMAIN log :
                   /\ k \in DOMAIN NewLog
                   /\ ~ IsSubmit =>
                        /\ NewLog[k] = log[k]
                        /\ Len(NewDf) = Len(df)
                        /\ \A i \in 1..Len(df) :
                               (/\ df[i]["ID"] = log[k].test_case_id
                                /\ df[i][log[k].field] = log[k].new_value)
                               => NewDf[i][log[k].field] = log[k].new_value ]_vars

----------------------------------------------------------------------------
(* C3 *)

\* C3: "Save & Next" pressed over a draft that differs from the stored
\* record applies the draft to the record at the pre-advance position and
\* logs each differing field before the cursor moves on.
C3_SaveAndNextCommits ==
    [][ \A draft \in (IF ClickSaveAndNext THEN FormDrafts ELSE {}) :
            DiffFields(draft, Selected) # {}
            => /\ \A f \in FormFields : NewDf[Selected + 1][f] = FormText(draft)[f]
               /\ \A f \in DiffFields(draft, Selected) :
                      change_key(df[Selected + 1]["ID"], f) \in DOMAIN NewLog ]_vars

----------------------------------------------------------------------------
(* C4 *)

\* C4: submitting the form exactly as it was opened, for any stored record,
\* reports zero changed fields, leaves the Change Log as it was and leaves
\* every field value of the store as it was.
C4_UnchangedCommitIsNoOp ==
    [][ (HasView /\ submitted' = Some(FormValues(Shown)))
            => /\ NewMessage.changes_made = 0
               /\ NewLog = log
               /\ NewDf = df ]_vars

----------------------------------------------------------------------------
(* C5 *)

\* C5: the cursor is a valid offset into the Filtered View: within
\* 0..len(view)-1 when the view is not empty, and 0 when it is empty.
C5_CursorInBounds ==
    IF view = <<>> THEN cursor = 0
    ELSE 0 <= cursor /\ cursor <= Len(view) - 1

\* Under a category filter a commit has changed the Category of the second
\* record, which was selected at offset 1: the view has shrunk to the first
\* record and the cursor has been clamped to offset 0.
C5_Witness ==
    /\ submitted # None
    /\ \E i \in 1..Len(Message.changed_fields) : Message.changed_fields[i] = "Category"
    /\ session_state.selected_category # "All"
    /\ session_state.selected_status = "All"
    /\ Len(df) = 2
    /\ df[2]["Category"] # session_state.selected_category
    /\ view = <<0>>
    /\ cursor = 0

----------------------------------------------------------------------------
(* C6 *)

\* The record at absolute position p passes the active predicate.
PassesPredicate(p) ==
    /\ session_state.selected_category = "All"
         \/ df[p + 1]["Category"] = session_state.selected_category
    /\ session_state.selected_status = "All"
         \/ df[p + 1]["Test Status"] = session_state.selected_status

\* C6: the Filtered View is exactly the ascending sequence of the absolute
\* positions whose current Category and Status pass the active predicate:
\* none missing, none extra, none repeated.
C6_ViewIsExactFilter ==
    IF session_state.df = None THEN view = <<>>
    ELSE /\ \A i \in 1..Len(view) : view[i] \in Offsets(df) /\ PassesPredicate(view[i])
         /\ \A i, j \in 1..Len(view) : i < j => view[i] < view[j]
         /\ \A p \in Offsets(df) : PassesPredicate(p) => InView(p, view)

\* Right after a commit, under an active status filter, the view holds
\* some records of the store and not others.
C6_Witness ==
    /\ submitted # None
    /\ session_state.selected_status # "All"
    /\ view # <<>>
    /\ Len(view) < Len(df)

----------------------------------------------------------------------------
(* C7 *)

\* The (record_id, field_name) pairs that have an entry.
LoggedPairs == { <<log[k].test_case_id, log[k].field>> : k \in DOMAIN log }

\* C7: the Change Log holds one entry per (record_id, field_name), filed
\* under the key of that pair, and the logged change count is the number of
\* distinct pairs; a commit that changes a field leaves, for that record id
\* and field, the entry whose old_value is the store value just before this
\* commit and whose new_value is the value committed now, also when an
\* earlier commit had logged the same field.
C7_OneEntryPerField ==
    /\ [](/\ \A k \in DOMAIN log :
                k = change_key(log[k].test_case_id, log[k].field)
          /\ total_changes(session_state) = Cardinality(LoggedPairs))
    /\ [][ submitted' # None =>
               LET draft == submitted'[1] IN
                   \A f \in DiffFields(draft, Selected) :
                       LET id == df[Selected + 1]["ID"]
                           entries == { k \in DOMAIN NewLog :
                                          /\ NewLog[k].test_case_id = id
                                          /\ NewLog[k].field = f }
                       IN  /\ Cardinality(entries) = 1
                           /\ \A k \in entries :
                                  /\ NewLog[k].old_value = df[Selected + 1][f]
                                  /\ NewLog[k].new_value = FormText(draft)[f] ]_vars

\* A second commit has replaced the entry of a field: the entry's old_value
\* is not the loaded value of that field in any record with that id.
C7_Witness ==
    /\ session_state.df # None
    /\ \E k \in DOMAIN log :
           \A i \in 1..Len(df) :
               session_state.original_df[1][i]["ID"] = log[k].test_case_id
                   => session_state.original_df[1][i][log[k].field] # log[k].old_value

----------------------------------------------------------------------------
(* C8 *)

\* Scenario B, status branch, at the end of the execution that commits:
\* the two records of FileAB (the uploader has been cleared since the load),
\* filter Status=Passed, and the submission has changed the Status of the
\* visible record (TC002) to Pending.
ScenarioBStatusCommitted ==
    /\ submitted # None
    /\ uploaded_file = None
    /\ session_state.original_df = Some(load_csv(FileAB))
    /\ session_state.selected_category = "All"
    /\ session_state.selected_status = "Passed"
    /\ Message.test_id = "TC002"
    /\ Message.changed_fields = <<"Status">>
    /\ df[1]["Test Status"] = "Pending"
    /\ df[2]["Test Status"] = "Pending"

\* C8: once the commit of Scenario B's status branch has re-filtered and the
\* page is drawn again, the predicate is still Status=Passed, the Filtered
\* View is empty and the cursor is 0.
C8_StatusEditEmptiesView ==
    [][ (ScenarioBStatusCommitted /\ Rerun)
            => /\ session_state'.selected_status = "Passed"
               /\ NewView = <<>>
               /\ NewCursor = 0 ]_vars

----------------------------------------------------------------------------
(* C9 *)

----------------------------------------------------------------------------
(* C10 *)

\* C10: a commit keeps the number of records, keeps the ID of the record
\* at the absolute position the form was opened against, and leaves every
\* field of every other record as it was, under any filter and cursor.
C10_CommitTouchesOneRecord ==
    [][ submitted' # None =>
            /\ Len(NewDf) = Len(df)
            /\ NewDf[Selected + 1]["ID"] = df[Selected + 1]["ID"]
            /\ \A i \in 1..Len(df) : i # Selected + 1 => NewDf[i] = df[i] ]_vars

\* Right after a commit made under an active filter: the record under the
\* cursor sits at an absolute position that differs from the cursor's
\* offset and carries values that differ from the loaded ones.
C10_Witness ==
    /\ submitted # None
    /\ Message.changes_made > 0
    /\ (session_state.selected_category # "All" \/ session_state.selected_status # "All")
    /\ view # <<>>
    /\ Selected # cursor
    /\ df[Selected + 1] # session_state.original_df[1][Selected + 1]

----------------------------------------------------------------------------
(* C11 *)

\* One execution of main() in which the user navigates: "Previous", "Next",
\* an entry of "Jump to Test Case" or another option of a filter.  The
\* values typed into the form are held by the browser until the form is
\* submitted, so such an execution receives none of them.
IsNavigation ==
    \/ ClickPrevious
    \/ ClickNext
    \/ \E selected_jump \in Offsets(view) : SelectJump(selected_jump)
    \/ IsFilterChange

\* C11: previous, next, jump and a filter change leave every field value of
\* every record of the store and every entry of the change log as they
\* were; they may only change the cursor, the Filtered View and the active
\* predicate (and they clear the message of the last commit).
C11_NavigationDiscardsDraft ==
    [][ IsNavigation =>
            /\ session_state'.df = session_state.df
            /\ session_state'.original_df = session_state.original_df
            /\ NewLog = log ]_vars

\* Right after a filter change made on a store that holds committed edits
\* and a non-empty change log: with a view of one record no navigation
\* button is enabled, so the execution that has just ended in st.rerun()
\* without a submission is the filter change.
C11_Witness ==
    /\ rerun
    /\ submitted = None
    /\ session_state.df # None
    /\ session_state.df # session_state.original_df
    /\ total_changes(session_state) > 0
    /\ session_state.selected_category # "All"
    /\ Len(view) = 1

----------------------------------------------------------------------------
(* C12 *)

\* C12: the export of the store is the header followed by exactly one line
\* per record, in absolute order, each carrying the eleven fields in
\* canonical order with the record's current values; and the download
\* button of every page the user is left with (an execution that did not
\* end in st.rerun()) holds the export of the store as that execution
\* left it.
C12_ExportReflectsStore ==
    /\ [](session_state.df # None =>
            LET out == export_data(session_state)[1]
            IN  /\ Len(out) = Len(df) + 1
                /\ out[1] = expected_columns
                /\ \A i \in 1..Len(df) :
                       /\ Len(out[i + 1]) = 11
                       /\ \A j \in 1..11 : out[i + 1][j] = df[i][expected_columns[j]])
    /\ [][ (~ rerun' /\ session_state'.df # None)
              => csv_data(session_state, uploaded_file', NoEvent)
                     = export_data(session_state') ]_vars

\* A page the user is left with whose store holds a committed edit next to
\* an unmodified record: the export differs from the export of the
\* baseline and still carries the unmodified record.
C12_Witness ==
    /\ ~ rerun
    /\ session_state.df # None
    /\ total_changes(session_state) > 0
    /\ export_data(session_state) # Some(to_csv(session_state.original_df[1]))
    /\ \E i \in 1..Len(df) :
           /\ df[i] = session_state.original_df[1][i]
           /\ export_data(session_state)[1][i + 1][2] = df[i]["Category"]

----------------------------------------------------------------------------
(* C13 *)

\* C13: wherever the navigation block is on screen, the handler of "Next"
\* leaves a cursor at the last offset of the view at the last offset and
\* moves any other cursor forward by one, the handler of "Previous" leaves
\* a cursor at offset 0 at 0 and moves any other cursor back by one, and
\* neither touches the view; and an execution of main() started by a
\* click on either button moves the cursor by exactly one and keeps the
\* view (the buttons are disabled at the ends).
C13_NavigationIsClamped ==
    /\ [](HasView =>
            LET last == Len(view) - 1
                fwd == NextCase(session_state)
                back == Previous(session_state)
            IN  /\ fwd.current_position = IF cursor = last THEN last ELSE cursor + 1
                /\ back.current_position = IF cursor = 0 THEN 0 ELSE cursor - 1
                /\ fwd.filtered_indices = view
                /\ back.filtered_indices = view)
    /\ [][ ClickNext => (NewCursor = cursor + 1 /\ NewView = view) ]_vars
    /\ [][ ClickPrevious => (NewCursor = cursor - 1 /\ NewView = view) ]_vars

\* Right after a move that has brought the cursor to the last offset of a
\* view of several records: "Next" is at its end, "Previous" is not.
C13_Witness ==
    /\ rerun
    /\ submitted = None
    /\ HasView
    /\ Len(view) > 1
    /\ cursor = Len(view) - 1
    /\ session_state.selected_category = "All"
    /\ session_state.selected_status = "All"
    /\ NextCase(session_state).current_position = cursor
    /\ Previous(session_state).current_position = cursor - 1

----------------------------------------------------------------------------
(* C14 *)

\* An execution of main() in which the upload branch replaces the store.
IsLoad ==
    /\ uploaded_file' # None
    /\ \/ session_state.df = None
       \/ load_csv(uploaded_file'[1]) # session_state.df[1]

\* C14: in every state, every Change Entry names the id of a record of the
\* store whose current value of the entry's field is the entry's
\* new_value (with no store there is no entry); and an execution that
\* loads a record set leaves the log empty.
C14_LogConsistentWithStore ==
    /\ [](IF session_state.df = None THEN log = EmptyLog
          ELSE \A k \in DOMAIN log :
                   \E i \in 1..Len(df) :
                       /\ df[i]["ID"] = log[k].test_case_id
                       /\ df[i][log[k].field] = log[k].new_value)
    /\ [][ IsLoad => NewLog = EmptyLog ]_vars

\* Two records share an ID and a field of one of them has been edited and
\* then edited back: its entry's new_value is the loaded value of that
\* record, its old_value is not, and the other record with the same ID
\* holds another value in that field.
C14_Witness ==
    /\ session_state.df # None
    /\ Len(df) = 2
    /\ df[1]["ID"] = df[2]["ID"]
    /\ \E k \in DOMAIN log :
           \E i \in 1..2 :
               /\ df[i][log[k].field] = log[k].new_value
               /\ session_state.original_df[1][i][log[k].field] = log[k].new_value
               /\ log[k].old_value # log[k].new_value
               /\ df[3 - i][log[k].field] # log[k].new_value

====
